---- MODULE Spec2Model ----
(***************************************************************************)
(* Model of portal/utils.py of the placement portal: the phone normalizer  *)
(* format_phone_e164, the credential validator, the single send send_sms   *)
(* with its bounded retry, and the bulk send send_sms_bulk.                *)
(*                                                                         *)
(* Python strings are sequences of one-character strings.  None is the     *)
(* one-element sequence <<"<None>">>, which no string of characters equals.*)
(* django.conf.settings is a function from setting names to values; a      *)
(* setting that is not configured is a name outside its domain, so that    *)
(* getattr(settings, name, default) is modelled by what it does.           *)
(***************************************************************************)
EXTENDS Integers, Sequences, FiniteSets, TLC

VARIABLES
    settings,      \* django.conf.settings, read-only while a call runs
    fmt_in,        \* argument of the format_phone_e164 call under study
    fmt_out,       \* its return value
    fmt_pc,        \* "start" before the call, "done" after it, "again"
                   \* after the call on the result
    fmt_again,     \* the result of format_phone_e164 on fmt_out
    provider,      \* the codes and messages the provider's errors carry
    pc,            \* send_sms: "idle", "provider", "sleep", "returned", "raised"
    to_number,     \* send_sms: its argument to_number
    retry_count,   \* send_sms: retry_count of the running invocation
    first_retry,   \* send_sms: retry_count of the outermost invocation
    result,        \* send_sms: the dict returned, or the exception raised
    e,             \* send_sms: the TwilioRestException caught last
    trace,         \* send_sms: provider calls and sleeps of the outermost call
    bulk_pc,       \* send_sms_bulk: "idle", "loop", "pause", "returned", "raised"
    recipients,    \* send_sms_bulk: its argument recipients
    i,             \* send_sms_bulk: index of the loop
    results,       \* send_sms_bulk: the dict results
    pauses,        \* send_sms_bulk: number of time.sleep(1) between batches
    cmd_pc,        \* test_sms: "idle", "sending", "done"
    validation,    \* test_sms: the tuple (is_valid, error_msg) it got
    stdout,        \* test_sms: what it has reported
    users,         \* auth User rows: username -> [is_active]
    profiles,      \* StudentProfile rows, by the username of their user
    applications,  \* Application rows: id -> [student, job, status]
    last_app_id,   \* the id given to the last Application row
    apply_reqs,    \* apply_now requests in flight
    admin_pc,      \* the staff handler that is waiting for its SMS, or "idle"
    admin_target,  \* what that handler was asked to change
    response       \* the last response of a view

fmt_vars == <<fmt_in, fmt_out, fmt_pc, fmt_again>>

send_vars == <<provider, pc, to_number, retry_count, first_retry,
               result, e, trace>>

bulk_vars == <<bulk_pc, recipients, i, results, pauses>>

cmd_vars == <<cmd_pc, validation, stdout>>

portal_vars == <<users, profiles, applications, last_app_id, apply_reqs,
                 admin_pc, admin_target, response>>

vars == <<settings, fmt_vars, send_vars, bulk_vars, cmd_vars, portal_vars>>

-----------------------------------------------------------------------------
(* Bounds of the model *)

MaxPre == 2        \* free characters at the head of a phone input
MaxFill == 10      \* digits "5" that follow the head
MaxRetries == 1    \* largest configured SMS_RETRY_ATTEMPTS
MaxDelay == 1      \* largest configured SMS_RETRY_DELAY
MaxBatch == 2      \* largest configured SMS_BATCH_SIZE
MaxRecipients == 5 \* longest list of recipients of a bulk send

-----------------------------------------------------------------------------
(* Python values *)

None == <<"<None>">>

\* no dict returned and no exception raised yet
NoResult == [kind |-> "none"]

\* no TwilioRestException caught yet
NoError == [code |-> 0, msg |-> "none"]

\* no view has responded yet
NoResponse ==
    [kind |-> "none", handler |-> "none", to |-> "none", level |-> "none"]

Chars == {"+", " ", "-", "\t", "0", "1", "9", "5"}

Whitespace == {" ", "\t"}

RECURSIVE LStrip(_, _)
\* s.lstrip(set): drop the leading characters that are in set
LStrip(s, set) ==
    IF s # <<>> /\ Head(s) \in set THEN LStrip(Tail(s), set) ELSE s

RECURSIVE RStrip(_, _)
RStrip(s, set) ==
    IF s # <<>> /\ s[Len(s)] \in set
    THEN RStrip(SubSeq(s, 1, Len(s) - 1), set) ELSE s

\* s.strip(): drop leading and trailing whitespace
Strip(s) == RStrip(LStrip(s, Whitespace), Whitespace)

\* s.replace(ch, '')
Remove(s, ch) == SelectSeq(s, LAMBDA c : c # ch)

\* s.startswith(p)
StartsWith(s, p) == Len(s) >= Len(p) /\ SubSeq(s, 1, Len(p)) = p

\* getattr(settings, name, default)
GetAttr(cfg, name, default) ==
    IF name \in DOMAIN cfg THEN cfg[name] ELSE default

-----------------------------------------------------------------------------
(* format_phone_e164 *)

DefaultCountryCode == <<"+", "9", "1">>

\* a variant of Falsy that also takes a blank string for empty
Falsy_blank(x) == x = None \/ Strip(x) = <<>>

\* not x, for x a string or None
Falsy(x) == x = None \/ x = <<>>

\* a variant of Clean that leaves the hyphens in
Clean_keep_hyphens(phone_number) == Remove(Strip(phone_number), " ")

\* str(phone_number).strip().replace(' ', '').replace('-', '')
Clean(phone_number) == Remove(Remove(Strip(phone_number), " "), "-")

\* a variant of HasCountryCode that does not look at the length
HasCountryCode_any_length(phone) == StartsWith(phone, <<"9", "1">>)

\* phone.startswith('91') and len(phone) == 12
HasCountryCode(phone) == StartsWith(phone, <<"9", "1">>) /\ Len(phone) = 12

format_phone_e164(cfg, phone_number) ==
    IF Falsy(phone_number) THEN None
    ELSE LET cleaned == Clean(phone_number)
             phone == LStrip(cleaned, {"0"})
             country_code ==
                 GetAttr(cfg, "SMS_DEFAULT_COUNTRY_CODE", DefaultCountryCode)
         IN  IF StartsWith(cleaned, <<"+">>) THEN cleaned
             ELSE IF HasCountryCode(phone) THEN <<"+">> \o phone
             ELSE IF Len(phone) = 10 THEN <<"+", "9", "1">> \o phone
             ELSE IF StartsWith(phone, <<"9", "1">>) THEN <<"+">> \o phone
             ELSE country_code \o phone

-----------------------------------------------------------------------------
(* Inputs *)

RECURSIVE StringsUpTo(_)
\* all strings over Chars of length at most n
StringsUpTo(n) ==
    IF n = 0 THEN {<<>>}
    ELSE LET shorter == StringsUpTo(n - 1)
         IN  shorter \cup {Append(s, c) : s \in shorter, c \in Chars}

RECURSIVE Fives(_)
Fives(k) == IF k = 0 THEN <<>> ELSE <<"5">> \o Fives(k - 1)

\* what an input may end with
Tails == {<<>>, <<" ">>, <<"-">>, <<"\t">>, <<"0">>, <<"1">>, <<"-", "\t">>}

\* phone inputs: None, and head \o 5...5 \o tail
PhoneInputs ==
    {None} \cup
    {h \o Fives(k) \o t :
        h \in StringsUpTo(MaxPre), k \in 0..MaxFill, t \in Tails}

\* configured default country codes (a configured code is a non-empty string)
CountryCodes == {<<"+", "9", "1">>, <<"+", "1">>, <<"9", "1">>}

\* one setting: not configured, or configured to one of vals
Opt(name, vals) == {<<>>} \cup {name :> v : v \in vals}

FmtSettings == Opt("SMS_DEFAULT_COUNTRY_CODE", CountryCodes)

\* the portal's views take no part
PortalOff ==
    /\ users = <<>>
    /\ profiles = <<>>
    /\ applications = <<>>
    /\ last_app_id = 0
    /\ apply_reqs = <<>>
    /\ admin_pc = "off"
    /\ admin_target = NoResult
    /\ response = NoResponse

-----------------------------------------------------------------------------
(* Specification of the normalizer: one call on an arbitrary input *)

InitFmt ==
    /\ settings \in FmtSettings
    /\ fmt_in \in PhoneInputs
    /\ fmt_out = None
    /\ fmt_again = None
    /\ fmt_pc = "start"
    /\ cmd_pc = "off" /\ validation = NoResult /\ stdout = <<>>
    /\ PortalOff
    /\ provider = [codes |-> {}, msgs |-> {}]
    /\ bulk_pc = "off"
    /\ recipients = <<>>
    /\ i = 0
    /\ results = NoResult
    /\ pauses = 0
    /\ pc = "off"
    /\ to_number = None
    /\ retry_count = 0
    /\ first_retry = 0
    /\ result = NoResult
    /\ e = NoError
    /\ trace = <<>>

FormatCall ==
    /\ fmt_pc = "start"
    /\ fmt_out' = format_phone_e164(settings, fmt_in)
    /\ fmt_pc' = "done"
    /\ UNCHANGED <<settings, fmt_in, fmt_again, send_vars, bulk_vars,
                   cmd_vars, portal_vars>>

\* the formatted number is formatted once more: Command.handle passes
\* format_phone_e164(phone) to send_sms, which formats its recipient
FormatAgain ==
    /\ fmt_pc = "done"
    /\ fmt_again' = format_phone_e164(settings, fmt_out)
    /\ fmt_pc' = "again"
    /\ UNCHANGED <<settings, fmt_in, fmt_out, send_vars, bulk_vars,
                   cmd_vars, portal_vars>>

NextFmt ==
    \/ FormatCall
    \/ FormatAgain

SpecFmt == InitFmt /\ [][NextFmt]_vars

-----------------------------------------------------------------------------
(* validate_twilio_credentials *)

\* a variant of Trimmed that does not strip
Trimmed_raw(cfg, name) == GetAttr(cfg, name, <<>>)

\* getattr(settings, name, '').strip()
Trimmed(cfg, name) == Strip(GetAttr(cfg, name, <<>>))

CredentialNames ==
    <<"TWILIO_ACCOUNT_SID", "TWILIO_AUTH_TOKEN", "TWILIO_PHONE_NUMBER">>

\* a variant of validate_twilio_credentials that names the first missing
\* credential only
validate_twilio_credentials_first(cfg) ==
    LET missing ==
            SelectSeq(CredentialNames, LAMBDA n : Trimmed(cfg, n) = <<>>)
    IN  IF missing # <<>>
        THEN [is_valid |-> FALSE, error_msg |-> <<Head(missing)>>]
        ELSE [is_valid |-> TRUE, error_msg |-> None]

\* the tuple (is_valid, error_msg); error_msg is None or the names that the
\* message joins with ", "
validate_twilio_credentials(cfg) ==
    LET missing ==
            SelectSeq(CredentialNames, LAMBDA n : Trimmed(cfg, n) = <<>>)
    IN  IF missing # <<>>
        THEN [is_valid |-> FALSE, error_msg |-> missing]
        ELSE [is_valid |-> TRUE, error_msg |-> None]

-----------------------------------------------------------------------------
(* send_sms *)

DefaultRetryAttempts == 3
DefaultRetryDelay == 5

RetryableCodes == {429, 500, 502, 503, 504}

\* codes a provider may raise: the retryable ones and a non-retryable one
ProviderCodes == RetryableCodes \cup {400}

ProviderMsgs == {"unavailable", "rejected"}

\* the last 12 hexadecimal digits of a fresh uuid4, two of them modelled
HexIds == {<<"A", "1">>, <<"F", "0">>}

\* message.sid and message.date_sent of a created message
Sids == {<<"S", "M", "1">>}
DatesSent == {None, <<"d", "a", "t", "e">>}


CallEvent(out, code) == [ev |-> "call", out |-> out, n |-> code]
SleepEvent(seconds) == [ev |-> "sleep", out |-> "slept", n |-> seconds]

max_retries(cfg) == GetAttr(cfg, "SMS_RETRY_ATTEMPTS", DefaultRetryAttempts)
retry_delay(cfg) == GetAttr(cfg, "SMS_RETRY_DELAY", DefaultRetryDelay)

\* a variant of SmsEnabled that reads a setting of another name
SmsEnabled_other_name(cfg) == GetAttr(cfg, "SMS_ENABLE", TRUE)

\* getattr(settings, 'SMS_ENABLED', True)
SmsEnabled(cfg) == GetAttr(cfg, "SMS_ENABLED", TRUE)

\* a variant of ShouldRetry that does not retry a rate limit
ShouldRetry_no_429(cfg, code, count) ==
    code \in {500, 502, 503, 504} /\ count < max_retries(cfg)

\* a variant of ShouldRetry that retries whatever the code
ShouldRetry_any_code(cfg, code, count) == count < max_retries(cfg)

\* a variant of ShouldRetry that allows one retry too many
ShouldRetry_off_by_one(cfg, code, count) ==
    code \in RetryableCodes /\ count <= max_retries(cfg)

\* e.code in [429, 500, 502, 503, 504] and retry_count < max_retries
ShouldRetry(cfg, code, count) ==
    code \in RetryableCodes /\ count < max_retries(cfg)

\* a variant of RecipientMissing that accepts every recipient
RecipientMissing_never(formatted_number) == FALSE

\* not formatted_number
RecipientMissing(formatted_number) == Falsy(formatted_number)

\* the dict returned when SMS is disabled
DisabledResult ==
    [kind |-> "dict", success |-> FALSE,
     error |-> "SMS is disabled", message_id |-> None]

\* a variant of DemoResult that carries no message_id
DemoResult_no_id(hex, to) ==
    [kind |-> "dict", success |-> TRUE, message_id |-> None,
     to |-> format_phone_e164(settings, to), mode |-> "demo"]

\* the dict returned in demo mode
DemoResult(hex, to) ==
    [kind |-> "dict", success |-> TRUE,
     message_id |-> <<"DEMO_MODE_">> \o hex,
     to |-> format_phone_e164(settings, to), mode |-> "demo"]

\* The body of send_sms(to, message_body, count) down to the provider call:
\* the SMS_ENABLED check, the credential check and the recipient check.
Enter(to, count) ==
    /\ to_number' = to
    /\ retry_count' = count
    /\ IF ~SmsEnabled(settings)
       THEN /\ pc' = "returned"
            /\ result' = DisabledResult
       ELSE IF ~validate_twilio_credentials(settings).is_valid
       THEN /\ pc' = "returned"
            /\ \E hex \in HexIds : result' = DemoResult(hex, to)
       ELSE IF RecipientMissing(format_phone_e164(settings, to))
       THEN /\ pc' = "raised"
            /\ result' = [kind |-> "ValueError",
                          text |-> "Invalid recipient phone number"]
       ELSE /\ pc' = "provider"
            /\ result' = NoResult

\* send_sms(to, message_body, count) is invoked from outside
Invoke(to, count) ==
    /\ pc = "idle"
    /\ first_retry' = count
    /\ trace' = <<>>
    /\ Enter(to, count)
    /\ UNCHANGED <<settings, fmt_vars, provider, e>>

\* a caller invokes send_sms(to, message_body, count)
SendSmsCall(to, count) ==
    /\ bulk_pc = "off"
    /\ cmd_pc = "idle"
    /\ Invoke(to, count)
    /\ UNCHANGED <<bulk_vars, cmd_vars, portal_vars>>

\* client.messages.create(...) returns a message
ProviderReturns ==
    /\ pc = "provider"
    /\ trace' = Append(trace, CallEvent("ok", 0))
    /\ pc' = "returned"
    /\ \E sid \in Sids, date_sent \in DatesSent :
           result' = [kind |-> "dict", success |-> TRUE, message_id |-> sid,
                      to |-> format_phone_e164(settings, to_number),
                      timestamp |-> date_sent]
    /\ UNCHANGED <<settings, fmt_vars, bulk_vars, cmd_vars, portal_vars, provider, to_number,
                   retry_count, first_retry, e>>

\* client.messages.create(...) raises TwilioRestException(code, msg)
ProviderRaises(code, msg) ==
    /\ pc = "provider"
    /\ code \in provider.codes
    /\ msg \in provider.msgs
    /\ e' = [code |-> code, msg |-> msg]
    /\ trace' = Append(trace, CallEvent("error", code))
    /\ IF ShouldRetry(settings, e'.code, retry_count)
       THEN pc' = "sleep" /\ result' = NoResult
       ELSE /\ pc' = "raised"
            /\ result' = [kind |-> "Exception", text |-> "Twilio Error",
                          code |-> e'.code, msg |-> e'.msg]
    /\ UNCHANGED <<settings, fmt_vars, bulk_vars, cmd_vars, portal_vars, provider, to_number,
                   retry_count, first_retry>>

\* the provider call raises an exception that is no TwilioRestException
ProviderFails ==
    /\ pc = "provider"
    /\ trace' = Append(trace, CallEvent("other", 0))
    /\ pc' = "raised"
    /\ result' = [kind |-> "Exception", text |-> "SMS Error",
                  code |-> 0, msg |-> "connection"]
    /\ UNCHANGED <<settings, fmt_vars, bulk_vars, cmd_vars, portal_vars, provider, to_number,
                   retry_count, first_retry, e>>

\* time.sleep(retry_delay); return send_sms(to_number, message_body,
\* retry_count + 1): what the inner invocation returns or raises is what
\* the outer one returns or raises
RetryAfterDelay ==
    /\ pc = "sleep"
    /\ trace' = Append(trace, SleepEvent(retry_delay(settings)))
    /\ Enter(to_number, retry_count + 1)
    /\ UNCHANGED <<settings, fmt_vars, bulk_vars, cmd_vars, portal_vars, provider, first_retry, e>>

-----------------------------------------------------------------------------
(* management/commands/test_sms.py: Command.handle *)

\* handle(phone=phone): validate the credentials and stop with the error
\* message if they are not valid; otherwise format the phone number and
\* pass the formatted number to send_sms
HandleCall(phone) ==
    /\ cmd_pc = "idle"
    /\ bulk_pc = "off"
    /\ pc = "idle"
    /\ validation' = validate_twilio_credentials(settings)
    /\ IF ~validation'.is_valid
       THEN /\ stdout' = <<[style |-> "ERROR", text |-> validation'.error_msg]>>
            /\ cmd_pc' = "done"
            /\ UNCHANGED <<settings, fmt_vars, send_vars>>
       ELSE /\ stdout' =
                 <<[style |-> "SUCCESS",
                    text |-> format_phone_e164(settings, phone)]>>
            /\ cmd_pc' = "sending"
            /\ Invoke(format_phone_e164(settings, phone), 0)
    /\ UNCHANGED <<bulk_vars, portal_vars>>

\* the rest of handle, after send_sms has returned or raised
HandleFinish ==
    /\ cmd_pc = "sending"
    /\ pc \in {"returned", "raised"}
    /\ stdout' =
          Append(stdout,
                 IF pc = "raised"
                 THEN [style |-> "ERROR", text |-> <<"Error sending SMS">>]
                 ELSE IF result.success
                 THEN [style |-> "SUCCESS", text |-> result.message_id]
                 ELSE [style |-> "ERROR", text |-> <<"SMS failed">>])
    /\ cmd_pc' = "done"
    /\ UNCHANGED <<settings, fmt_vars, send_vars, bulk_vars, portal_vars,
                   validation>>

-----------------------------------------------------------------------------
(* Specification of send_sms: one call under an arbitrary configuration *)

CredValues == {<<>>, <<" ">>, <<"A", "C">>}

SendPhones == {None, <<>>, <<" ">>, <<"0", "5", "-", "5">>}

SendSettings ==
    {s1 @@ s2 @@ s3 @@ s4 @@ s5 @@ s6 @@ s7 :
        s1 \in Opt("SMS_ENABLED", {TRUE, FALSE}),
        s2 \in Opt("TWILIO_ACCOUNT_SID", CredValues),
        s3 \in Opt("TWILIO_AUTH_TOKEN", CredValues),
        s4 \in Opt("TWILIO_PHONE_NUMBER", CredValues),
        s5 \in Opt("SMS_RETRY_ATTEMPTS", 0..MaxRetries),
        s6 \in Opt("SMS_RETRY_DELAY", 1..MaxDelay),
        s7 \in Opt("SMS_DEFAULT_COUNTRY_CODE", {<<"9", "1">>})}

\* retry_count arguments: 0 for a caller, more for the calls from within
RetryCounts == 0..(MaxRetries + 1)

InitSend ==
    /\ settings \in SendSettings
    /\ fmt_in = None /\ fmt_out = None /\ fmt_pc = "off"
    /\ fmt_again = None
    /\ provider = [codes |-> ProviderCodes, msgs |-> ProviderMsgs]
    /\ cmd_pc = "idle" /\ validation = NoResult /\ stdout = <<>>
    /\ PortalOff
    /\ bulk_pc = "off"
    /\ recipients = <<>>
    /\ i = 0
    /\ results = NoResult
    /\ pauses = 0
    /\ pc = "idle"
    /\ to_number = None
    /\ retry_count = 0
    /\ first_retry = 0
    /\ result = NoResult
    /\ e = NoError
    /\ trace = <<>>

NextSend ==
    \/ \E to \in SendPhones, count \in RetryCounts : SendSmsCall(to, count)
    \/ ProviderReturns
    \/ \E code \in ProviderCodes, msg \in ProviderMsgs :
          ProviderRaises(code, msg)
    \/ ProviderFails
    \/ RetryAfterDelay
    \/ \E phone \in SendPhones : HandleCall(phone)
    \/ HandleFinish

Spec == InitSend /\ [][NextSend]_vars

\* The call is synchronous: once started it runs on, and a provider call
\* comes back, with a message or with an exception.
FairSpec == Spec /\ WF_vars(NextSend)

-----------------------------------------------------------------------------
(* send_sms_bulk *)

DefaultBatchSize == 10

batch_size(cfg) == GetAttr(cfg, "SMS_BATCH_SIZE", DefaultBatchSize)

\* str(e) of a raised exception, result.get('error') of a returned dict
Reason(res) ==
    IF res.kind = "dict"
    THEN [text |-> res.error, code |-> 0, msg |-> ""]
    ELSE IF res.kind = "ValueError"
    THEN [text |-> res.text, code |-> 0, msg |-> ""]
    ELSE [text |-> res.text, code |-> res.code, msg |-> res.msg]

\* a variant of BatchComplete that does not look at what remains
BatchComplete_always(size, idx, n) == (idx + 1) % size = 0

\* (i + 1) % batch_size == 0 and (i + 1) < len(recipients), batch_size # 0
BatchComplete(size, idx, n) == (idx + 1) % size = 0 /\ (idx + 1) < n

\* results = {'sent': [], 'failed': [], 'total': len(recipients)}
BulkCall ==
    /\ bulk_pc = "idle"
    /\ results' = [sent |-> <<>>, failed |-> <<>>, total |-> Len(recipients)]
    /\ i' = 0
    /\ bulk_pc' = "loop"
    /\ UNCHANGED <<settings, fmt_vars, send_vars, cmd_vars, portal_vars, recipients, pauses>>

\* result = send_sms(phone_number, message_body)
BulkSend ==
    /\ bulk_pc = "loop"
    /\ i < Len(recipients)
    /\ Invoke(recipients[i + 1], 0)
    /\ UNCHANGED <<bulk_vars, cmd_vars, portal_vars>>

\* the rest of one round of the loop, after send_sms has returned or raised:
\* the recipient is recorded, then the batch test is evaluated, in which
\* the modulus raises ZeroDivisionError outside the try for a batch size 0
BulkCollect ==
    /\ bulk_pc = "loop"
    /\ pc \in {"returned", "raised"}
    /\ LET phone_number == recipients[i + 1]
           failure == [phone |-> phone_number, reason |-> Reason(result)]
       IN  results' =
               IF pc = "returned" /\ result.success
               THEN [results EXCEPT !.sent = Append(@, phone_number)]
               ELSE [results EXCEPT !.failed = Append(@, failure)]
    /\ pc' = "idle"
    /\ IF batch_size(settings) = 0
       THEN bulk_pc' = "raised" /\ i' = i
       ELSE IF BatchComplete(batch_size(settings), i, Len(recipients))
       THEN bulk_pc' = "pause" /\ i' = i
       ELSE bulk_pc' = "loop" /\ i' = i + 1
    /\ UNCHANGED <<settings, fmt_vars, cmd_vars, portal_vars, provider, to_number,
                   retry_count, first_retry, result, e, trace, recipients,
                   pauses>>

\* time.sleep(1), then the next round
BulkPause ==
    /\ bulk_pc = "pause"
    /\ pauses' = pauses + 1
    /\ i' = i + 1
    /\ bulk_pc' = "loop"
    /\ UNCHANGED <<settings, fmt_vars, send_vars, cmd_vars, portal_vars, recipients, results>>

\* return results
BulkReturn ==
    /\ bulk_pc = "loop"
    /\ pc = "idle"
    /\ i = Len(recipients)
    /\ bulk_pc' = "returned"
    /\ UNCHANGED <<settings, fmt_vars, send_vars, cmd_vars, portal_vars, recipients, i, results,
                   pauses>>

-----------------------------------------------------------------------------
(* Specification of send_sms_bulk: one call on an arbitrary list *)

PhoneNames == <<"1", "2", "3", "4", "5", "6", "7", "8">>

\* lists of up to MaxRecipients recipients: the k-th one is a phone number
\* of its own or the empty string
RecipientLists ==
    UNION {[1..n -> {"phone", "empty"}] : n \in 0..MaxRecipients}

RecipientsOf(shape) ==
    [k \in DOMAIN shape |->
        IF shape[k] = "phone" THEN <<"9", PhoneNames[k]>> ELSE <<>>]

BulkSettings ==
    {s1 @@ s2 @@ s3 @@ s4 :
        s1 \in Opt("SMS_ENABLED", {FALSE}),
        s2 \in {<<>>, [n \in {"TWILIO_ACCOUNT_SID", "TWILIO_AUTH_TOKEN",
                             "TWILIO_PHONE_NUMBER"} |-> <<"A", "C">>]},
        s3 \in {"SMS_RETRY_ATTEMPTS" :> r : r \in 0..1},
        s4 \in Opt("SMS_BATCH_SIZE", 0..MaxBatch)}

InitBulk ==
    /\ settings \in BulkSettings
    /\ fmt_in = None /\ fmt_out = None /\ fmt_pc = "off"
    /\ fmt_again = None
    /\ provider = [codes |-> {503}, msgs |-> {"unavailable"}]
    /\ cmd_pc = "off" /\ validation = NoResult /\ stdout = <<>>
    /\ PortalOff
    /\ pc = "idle"
    /\ to_number = None
    /\ retry_count = 0
    /\ first_retry = 0
    /\ result = NoResult
    /\ e = NoError
    /\ trace = <<>>
    /\ bulk_pc = "idle"
    /\ \E shape \in RecipientLists : recipients = RecipientsOf(shape)
    /\ i = 0
    /\ results = NoResult
    /\ pauses = 0

NextBulk ==
    \/ BulkCall
    \/ BulkSend
    \/ ProviderReturns
    \/ \E code \in ProviderCodes, msg \in ProviderMsgs :
          ProviderRaises(code, msg)
    \/ ProviderFails
    \/ RetryAfterDelay
    \/ BulkCollect
    \/ BulkPause
    \/ BulkReturn

SpecBulk == InitBulk /\ [][NextBulk]_vars

-----------------------------------------------------------------------------
(* Properties of format_phone_e164 *)

Digits == {"0", "1", "9", "5"}

IsDigits(s) == \A k \in 1..Len(s) : s[k] \in Digits

IsString(s) == \A k \in 1..Len(s) : s[k] \in Chars

Separators == {" ", "-"}

HasSeparator(s) == \E k \in 1..Len(s) : s[k] \in Separators

\* s without the whitespace at its end and without any space or hyphen
WithoutSeparators(s) ==
    SelectSeq(RStrip(s, Whitespace), LAMBDA c : c \notin Separators)

\* C8 as stated: every 10-digit numeric string d, also one that begins with
\* 0, is normalized to "+91" followed by d.
C8_AllTenDigits ==
    (fmt_pc = "done" /\ Len(fmt_in) = 10 /\ IsDigits(fmt_in))
        => fmt_out = <<"+", "9", "1">> \o fmt_in

\* C8 amended: every 10-digit numeric string d that does not begin with 0
\* (also one that begins with 91) is normalized to "+91" followed by d.
C8_TenDigitsNoLeadingZero ==
    (fmt_pc = "done" /\ Len(fmt_in) = 10 /\ IsDigits(fmt_in)
        /\ fmt_in[1] # "0")
        => fmt_out = <<"+", "9", "1">> \o fmt_in

C8_Witness ==
    /\ fmt_pc = "done"
    /\ Len(fmt_in) = 10 /\ IsDigits(fmt_in)
    /\ StartsWith(fmt_in, <<"9", "1">>)
    /\ fmt_out = <<"+", "9", "1">> \o fmt_in

\* C9 as stated: every string that starts with "+", also one with spaces or
\* hyphens after the "+", is returned unchanged.
C9_PlusUnchanged ==
    (fmt_pc = "done" /\ StartsWith(fmt_in, <<"+">>)) => fmt_out = fmt_in

\* C9 amended: a string that starts with "+" is returned with the whitespace
\* at its end trimmed and every space and hyphen removed, and with nothing
\* else changed; it is returned unchanged when it has no space, no hyphen
\* and no whitespace at its end.
C9_PlusCleaned ==
    (fmt_pc = "done" /\ StartsWith(fmt_in, <<"+">>))
        => /\ fmt_out = WithoutSeparators(fmt_in)
           /\ (~HasSeparator(fmt_in) /\ fmt_in[Len(fmt_in)] \notin Whitespace)
                  => fmt_out = fmt_in

C9_Witness ==
    /\ fmt_pc = "done"
    /\ StartsWith(fmt_in, <<"+">>)
    /\ \E k \in 1..Len(fmt_in) : fmt_in[k] = "-"
    /\ Len(fmt_out) < Len(fmt_in)
    /\ StartsWith(fmt_out, <<"+">>)

\* C10: format_phone_e164 returns for every input; it returns None for the
\* empty string and for None, and a non-empty string for every other input,
\* so that the result is None exactly when the input is empty or None.
C10_Total ==
    fmt_pc = "done"
        => /\ (fmt_out = None) <=> (fmt_in = None \/ fmt_in = <<>>)
           /\ fmt_out # None => (fmt_out # <<>> /\ IsString(fmt_out))

C10_Witness ==
    /\ fmt_pc = "done"
    /\ fmt_in # <<>> /\ fmt_in # None
    /\ Strip(fmt_in) = <<>>
    /\ fmt_out # None /\ fmt_out # <<>>

-----------------------------------------------------------------------------
(* Properties of send_sms *)

Calls(t) == SelectSeq(t, LAMBDA ev : ev.ev = "call")
Sleeps(t) == SelectSeq(t, LAMBDA ev : ev.ev = "sleep")

RECURSIVE TotalSlept(_)
TotalSlept(t) ==
    IF t = <<>> THEN 0
    ELSE (IF Head(t).ev = "sleep" THEN Head(t).n ELSE 0) + TotalSlept(Tail(t))

\* provider calls and sleeps alternate, and a provider call comes last
Alternates(t) ==
    /\ Len(t) % 2 = 1
    /\ \A k \in 1..Len(t) :
          t[k].ev = (IF k % 2 = 1 THEN "call" ELSE "sleep")

IsRetryableError(ev) ==
    ev.ev = "call" /\ ev.out = "error" /\ ev.n \in {429, 500, 502, 503, 504}

IsFatalError(ev) ==
    ev.ev = "call" /\ ev.out = "error" /\ ev.n \notin {429, 500, 502, 503, 504}

Finished == pc \in {"returned", "raised"}

Running == pc \in {"provider", "sleep"}

EnabledFlag ==
    "SMS_ENABLED" \notin DOMAIN settings \/ settings["SMS_ENABLED"]

CredentialSet(name) ==
    name \in DOMAIN settings /\ Strip(settings[name]) # <<>>

AllCredentialsSet ==
    /\ CredentialSet("TWILIO_ACCOUNT_SID")
    /\ CredentialSet("TWILIO_AUTH_TOKEN")
    /\ CredentialSet("TWILIO_PHONE_NUMBER")

\* the provider has raised a retryable code on every call so far
AllCallsRetryable ==
    LET calls == Calls(trace)
    IN  calls # <<>> /\ \A k \in 1..Len(calls) : IsRetryableError(calls[k])

\* the provider has raised a retryable code on k calls and then succeeded
RetryableThenOk(k) ==
    LET calls == Calls(trace)
    IN  /\ Len(calls) = k + 1
        /\ calls[k + 1].out = "ok"
        /\ \A j \in 1..k : IsRetryableError(calls[j])

\* C1: with SMS enabled, valid credentials and a non-empty recipient, a call
\* with retry_count = 0 whose provider raises a retryable code on its first
\* k calls, k <= max_retries, and then succeeds, returns success = true
\* after k + 1 provider calls and k sleeps of SMS_RETRY_DELAY, each sleep
\* between two provider calls; it does not give up before.
C1_RetryThenSuccess ==
    (first_retry = 0 /\ EnabledFlag /\ AllCredentialsSet
        /\ to_number # None /\ to_number # <<>>)
    => /\ \A k \in 0..max_retries(settings) :
             (Finished /\ RetryableThenOk(k))
                 => /\ pc = "returned"
                    /\ result.success
                    /\ Len(Calls(trace)) = k + 1
                    /\ Len(Sleeps(trace)) = k
                    /\ \A j \in 1..Len(trace) :
                          trace[j].ev = "sleep"
                              => trace[j].n = retry_delay(settings)
                    /\ Alternates(trace)
       /\ (AllCallsRetryable /\ Len(Calls(trace)) <= max_retries(settings))
             => pc \in {"sleep", "provider"}

C1_Witness ==
    /\ first_retry = 0
    /\ pc = "returned"
    /\ RetryableThenOk(2)
    /\ trace[1].n = 503 /\ trace[3].n = 503
    /\ max_retries(settings) = 3
    /\ Len(trace) = 5
    /\ result.success

\* what C2 says of the states of a call with retry_count = 0
C2_Bound ==
    first_retry = 0
    => /\ Len(Calls(trace)) <= max_retries(settings) + 1
       /\ TotalSlept(trace) <= max_retries(settings) * retry_delay(settings)
       /\ (Finished /\ AllCallsRetryable)
             => /\ pc = "raised"
                /\ Len(Calls(trace)) = max_retries(settings) + 1
                /\ TotalSlept(trace)
                      = max_retries(settings) * retry_delay(settings)

\* C2: send_sms terminates; when the provider raises a retryable code on
\* every call, a call with retry_count = 0 raises after exactly
\* max_retries + 1 provider calls and max_retries * retry_delay time-units
\* of sleep, and no call makes more provider calls or sleeps longer.
C2_BoundedRetry == [](C2_Bound) /\ (Running ~> Finished)

C2_Witness ==
    /\ first_retry = 0
    /\ pc = "raised"
    /\ AllCallsRetryable
    /\ max_retries(settings) = 3
    /\ Len(Calls(trace)) = 4
    /\ retry_delay(settings) = 5
    /\ TotalSlept(trace) = 15

\* C3: for every retry_count, a provider error whose code is not retryable
\* ends the call at once: send_sms raises an error with the provider's code
\* and message, with no sleep and no provider call after it, so after
\* exactly one provider call when it is the first.
C3_FatalNoRetry ==
    \A k \in 1..Len(trace) :
        IsFatalError(trace[k])
            => /\ k = Len(trace)
               /\ pc = "raised"
               /\ result = [kind |-> "Exception", text |-> "Twilio Error",
                             code |-> trace[k].n, msg |-> e.msg]
               /\ e.code = trace[k].n

C3_Witness ==
    /\ first_retry > 0
    /\ retry_count = first_retry
    /\ retry_count < max_retries(settings)
    /\ pc = "raised"
    /\ trace = <<CallEvent("error", 400)>>
    /\ result.code = 400

\* C4: when SMS_ENABLED is false, send_sms, for every recipient and
\* credential configuration, makes no provider call, does not sleep, does
\* not raise, and returns success = false, error = "SMS is disabled" and
\* message_id = None.
C4_Disabled ==
    (~EnabledFlag /\ pc # "idle")
        => /\ pc = "returned"
           /\ trace = <<>>
           /\ result = [kind |-> "dict", success |-> FALSE,
                         error |-> "SMS is disabled", message_id |-> None]

C4_Witness ==
    /\ ~EnabledFlag
    /\ AllCredentialsSet
    /\ to_number = <<"0", "5", "-", "5">>
    /\ pc = "returned"
    /\ ~result.success

\* C5: when SMS is enabled and one of the three credentials is unset or
\* blank, send_sms, for every recipient, also an empty one or None, does not
\* raise and makes no provider call, and returns success = true,
\* mode = "demo", a message_id that starts with DEMO_MODE_ and the
\* normalized recipient.
C5_DemoMode ==
    (EnabledFlag /\ ~AllCredentialsSet /\ pc # "idle")
        => /\ pc = "returned"
           /\ trace = <<>>
           /\ DOMAIN result = {"kind", "success", "message_id", "to", "mode"}
           /\ result.success
           /\ result.mode = "demo"
           /\ StartsWith(result.message_id, <<"DEMO_MODE_">>)
           /\ result.to = format_phone_e164(settings, to_number)

C5_Witness ==
    /\ EnabledFlag
    /\ "TWILIO_ACCOUNT_SID" \in DOMAIN settings
    /\ settings["TWILIO_ACCOUNT_SID"] = <<" ">>
    /\ CredentialSet("TWILIO_AUTH_TOKEN")
    /\ CredentialSet("TWILIO_PHONE_NUMBER")
    /\ to_number = None
    /\ pc = "returned"
    /\ result.to = None

-----------------------------------------------------------------------------
(* Properties of send_sms_bulk *)

\* C6: send_sms_bulk never raises, whatever the outcomes of the sends and
\* whatever the configured batch size, and when it returns every recipient
\* is in exactly one of sent and failed:
\* len(sent) + len(failed) = total = len(recipients).
C6_BulkNeverRaises ==
    /\ bulk_pc # "raised"
    /\ bulk_pc = "returned"
          => /\ Len(results.sent) + Len(results.failed) = results.total
             /\ results.total = Len(recipients)

\* ceil(n / size), size > 0
CeilDiv(n, size) == (n + size - 1) \div size

\* C7: for a batch size of at least 1, send_sms_bulk takes the recipients in
\* input order and pauses after every batch_size-th send only if more
\* recipients remain: ceil(n / batch_size) - 1 pauses for n > 0 recipients,
\* none after the last, and when all sends succeed sent is the input list
\* and failed is empty.
C7_BatchPauses ==
    LET n == Len(recipients)
        size == batch_size(settings)
    IN  size >= 1
        => /\ bulk_pc = "pause" => (i + 1 < n /\ (i + 1) % size = 0)
           /\ bulk_pc = "returned"
                 => /\ pauses = IF n = 0 THEN 0 ELSE CeilDiv(n, size) - 1
                    /\ results.failed = <<>> => results.sent = recipients
                    /\ results.sent = recipients => results.failed = <<>>

C7_Witness ==
    /\ bulk_pc = "returned"
    /\ Len(recipients) = 5
    /\ batch_size(settings) = 2
    /\ AllCredentialsSet
    /\ results.sent = recipients
    /\ results.failed = <<>>
    /\ pauses = 2

-----------------------------------------------------------------------------
(* views.py: the requests of students and of staff *)

\* Application rows created in one behaviour
MaxApplications == 3

Usernames == {"asha", "ravi"}
Jobs == {"job1"}
Statuses == {"Shortlisted"}

\* apply_now requests that can be in flight together
Requests == {"r1", "r2"}

\* phone numbers that ProfileForm accepts (required, at most 15 characters)
PortalPhones == {<<"9", "8">>, <<"0", "5", "-", "5">>}

\* f without the row of key k
Without(f, k) == [x \in DOMAIN f \ {k} |-> f[x]]

\* the ids of the Application rows of a student for a job
Matching(student, job) ==
    {a \in DOMAIN applications :
        applications[a].student = student /\ applications[a].job = job}

\* login_required: the request comes from a user who can log in
LoggedIn(u) == u \in DOMAIN users /\ users[u].is_active

Redirect(handler, to, level) ==
    [kind |-> "redirect", handler |-> handler, to |-> to, level |-> level]

\* the exception leaves the handler
Propagated(handler) ==
    [kind |-> "raised", handler |-> handler, to |-> "none", level |-> "none"]

\* a variant of Caught that catches ValueError only
Caught_value_error(kind) == kind = "ValueError"

\* except Exception as e
Caught(kind) == kind \in {"Exception", "ValueError"}

\* register: a valid POST creates the user, inactive, and its profile
Register(u, phone) ==
    /\ admin_pc # "off"
    /\ u \notin DOMAIN users
    /\ users' = users @@ (u :> [is_active |-> FALSE])
    /\ profiles' = profiles @@ (u :> [phone |-> phone, is_approved |-> FALSE])
    /\ UNCHANGED <<settings, fmt_vars, send_vars, bulk_vars, cmd_vars,
                   applications, last_app_id, apply_reqs, admin_pc,
                   admin_target, response>>

\* edit_profile: a valid POST saves the form's fields on the profile
EditProfile(u, phone) ==
    /\ admin_pc # "off"
    /\ LoggedIn(u)
    /\ u \in DOMAIN profiles
    /\ profiles' = [profiles EXCEPT ![u].phone = phone]
    /\ UNCHANGED <<settings, fmt_vars, send_vars, bulk_vars, cmd_vars, users,
                   applications, last_app_id, apply_reqs, admin_pc,
                   admin_target, response>>

\* the locals of an apply_now request that is not running
NoRequest == [pc |-> "idle", student |-> "none", job |-> "none"]

\* apply_now down to the query of get_or_create: the request ends here when
\* the profile is not approved or when the query finds a row or several
ApplyNowGet(r, u, job) ==
    /\ admin_pc # "off"
    /\ apply_reqs[r].pc = "idle"
    /\ last_app_id
         + Cardinality({x \in Requests : apply_reqs[x].pc = "create"})
         < MaxApplications
    /\ LoggedIn(u)
    /\ u \in DOMAIN profiles
    /\ LET found == Cardinality(Matching(u, job))
       IN  IF ~profiles[u].is_approved
           THEN /\ response' = Redirect("apply_now", "student_dash", "none")
                /\ UNCHANGED apply_reqs
           ELSE IF found = 0
           THEN /\ apply_reqs' =
                     [apply_reqs EXCEPT
                        ![r] = [pc |-> "create", student |-> u, job |-> job]]
                /\ UNCHANGED response
           ELSE IF found = 1
           THEN /\ response' = Redirect("apply_now", "student_dash", "info")
                /\ UNCHANGED apply_reqs
           ELSE /\ response' = Propagated("apply_now")
                /\ UNCHANGED apply_reqs
    /\ UNCHANGED <<settings, fmt_vars, send_vars, bulk_vars, cmd_vars, users,
                   profiles, applications, last_app_id, admin_pc,
                   admin_target>>

\* the rest of apply_now: get_or_create found no row and creates one
ApplyNowCreate(r) ==
    /\ apply_reqs[r].pc = "create"
    /\ LET u == apply_reqs[r].student
           job == apply_reqs[r].job
       IN  IF u \in DOMAIN profiles
           THEN /\ last_app_id' = last_app_id + 1
                /\ applications' =
                     applications @@
                       (last_app_id' :> [student |-> u, job |-> job,
                                         status |-> "Applied"])
                /\ response' =
                     [kind |-> "render", handler |-> "apply_now",
                      to |-> "apply_success", level |-> "success"]
           ELSE /\ response' = Propagated("apply_now")
                /\ UNCHANGED <<applications, last_app_id>>
    /\ apply_reqs' = [apply_reqs EXCEPT ![r] = NoRequest]
    /\ UNCHANGED <<settings, fmt_vars, send_vars, bulk_vars, cmd_vars, users,
                   profiles, admin_pc, admin_target>>

\* a staff handler is requested by a user who is not staff
NotStaff(handler) ==
    /\ admin_pc = "idle"
    /\ response' =
         Redirect(handler,
                  IF handler = "update_application_status"
                  THEN "student_dash" ELSE "login",
                  "none")
    /\ UNCHANGED <<settings, fmt_vars, send_vars, bulk_vars, cmd_vars, users,
                   profiles, applications, last_app_id, apply_reqs, admin_pc,
                   admin_target>>

\* a variant of Activated that leaves the user as it is
Activated_not_saved(rows, u) == rows

\* profile.user.is_active = True; profile.user.save()
Activated(rows, u) == [rows EXCEPT ![u].is_active = TRUE]

\* admin_approve_student down to the provider call of the notification:
\* the profile and the user are saved, then notify_student_approval sends
ApproveCall(u) ==
    /\ admin_pc = "idle"
    /\ u \in DOMAIN profiles
    /\ profiles' = [profiles EXCEPT ![u].is_approved = TRUE]
    /\ users' = Activated(users, u)
    /\ admin_pc' = "admin_approve_student"
    /\ admin_target' = [id |-> u, status |-> "approved"]
    /\ Invoke(profiles[u].phone, 0)
    /\ UNCHANGED <<bulk_vars, cmd_vars, applications, last_app_id, apply_reqs,
                   response>>

\* admin_reject_student down to the provider call of the notification
RejectCall(u) ==
    /\ admin_pc = "idle"
    /\ u \in DOMAIN profiles
    /\ admin_pc' = "admin_reject_student"
    /\ admin_target' = [id |-> u, status |-> "rejected"]
    /\ Invoke(profiles[u].phone, 0)
    /\ UNCHANGED <<bulk_vars, cmd_vars, users, profiles, applications,
                   last_app_id, apply_reqs, response>>

\* update_application_status down to the provider call of the notification:
\* the application is saved, then notify_application_update sends
StatusCall(a, new_status) ==
    /\ admin_pc = "idle"
    /\ a \in DOMAIN applications
    /\ applications' = [applications EXCEPT ![a].status = new_status]
    /\ admin_pc' = "update_application_status"
    /\ admin_target' = [id |-> a, status |-> new_status]
    /\ Invoke(profiles[applications[a].student].phone, 0)
    /\ UNCHANGED <<bulk_vars, cmd_vars, users, profiles, last_app_id,
                   apply_reqs, response>>

\* the handler returns: its locals and those of send_sms are gone
Leave ==
    /\ admin_pc' = "idle"
    /\ admin_target' = NoResult
    /\ pc' = "idle"
    /\ to_number' = None
    /\ retry_count' = 0
    /\ first_retry' = 0
    /\ result' = NoResult
    /\ e' = NoError
    /\ trace' = <<>>

\* the rest of admin_approve_student and of update_application_status,
\* after the notification has returned or raised
NotifyFinish ==
    /\ admin_pc \in {"admin_approve_student", "update_application_status"}
    /\ pc \in {"returned", "raised"}
    /\ response' =
         IF pc = "returned" THEN Redirect(admin_pc, "admin_dash", "success")
         ELSE IF Caught(result.kind)
         THEN Redirect(admin_pc, "admin_dash", "warning")
         ELSE Propagated(admin_pc)
    /\ Leave
    /\ UNCHANGED <<settings, fmt_vars, bulk_vars, cmd_vars, provider, users,
                   profiles, applications, last_app_id, apply_reqs>>

\* the rest of admin_reject_student: profile.user.delete() deletes the
\* user, its profile and the applications of the profile
RejectFinish ==
    /\ admin_pc = "admin_reject_student"
    /\ pc \in {"returned", "raised"}
    /\ Leave
    /\ IF pc = "raised" /\ ~Caught(result.kind)
       THEN /\ response' = Propagated(admin_pc)
            /\ UNCHANGED <<users, profiles, applications>>
       ELSE /\ response' = Redirect(admin_pc, "admin_dash", "error")
            /\ users' = Without(users, admin_target.id)
            /\ profiles' = Without(profiles, admin_target.id)
            /\ applications' =
                 [a \in {x \in DOMAIN applications :
                            applications[x].student # admin_target.id}
                    |-> applications[a]]
    /\ UNCHANGED <<settings, fmt_vars, bulk_vars, cmd_vars, provider,
                   last_app_id, apply_reqs>>

-----------------------------------------------------------------------------
(* Specification of the portal: requests of students and staff, interleaved *)

\* SMS disabled, demo mode, and live with one retry
PortalSettings ==
    {"SMS_ENABLED" :> FALSE,
     "SMS_RETRY_ATTEMPTS" :> 1,
     [n \in {"TWILIO_ACCOUNT_SID", "TWILIO_AUTH_TOKEN",
             "TWILIO_PHONE_NUMBER"} |-> <<"A", "C">>]
        @@ ("SMS_RETRY_ATTEMPTS" :> 1)}

StaffHandlers ==
    {"admin_approve_student", "admin_reject_student",
     "update_application_status"}

\* an empty database, no request in flight
PortalStart ==
    /\ fmt_in = None /\ fmt_out = None /\ fmt_pc = "off"
    /\ fmt_again = None
    /\ provider = [codes |-> {503}, msgs |-> {"unavailable"}]
    /\ cmd_pc = "off" /\ validation = NoResult /\ stdout = <<>>
    /\ bulk_pc = "off"
    /\ recipients = <<>>
    /\ i = 0
    /\ results = NoResult
    /\ pauses = 0
    /\ pc = "idle"
    /\ to_number = None
    /\ retry_count = 0
    /\ first_retry = 0
    /\ result = NoResult
    /\ e = NoError
    /\ trace = <<>>
    /\ users = <<>>
    /\ profiles = <<>>
    /\ applications = <<>>
    /\ last_app_id = 0
    /\ admin_pc = "idle"
    /\ admin_target = NoResult
    /\ response = NoResponse

InitPortal ==
    /\ settings \in PortalSettings
    /\ apply_reqs = [r \in Requests |-> NoRequest]
    /\ PortalStart

NextPortal ==
    \/ \E u \in Usernames, phone \in PortalPhones : Register(u, phone)
    \/ \E u \in Usernames, phone \in PortalPhones : EditProfile(u, phone)
    \/ \E u \in Usernames, job \in Jobs : ApplyNowGet("r1", u, job)
    \/ ApplyNowCreate("r1")
    \/ \E handler \in StaffHandlers : NotStaff(handler)
    \/ \E u \in Usernames : ApproveCall(u)
    \/ \E u \in Usernames : RejectCall(u)
    \/ \E a \in 1..MaxApplications, new_status \in Statuses :
          StatusCall(a, new_status)
    \/ ProviderReturns
    \/ \E code \in ProviderCodes, msg \in ProviderMsgs :
          ProviderRaises(code, msg)
    \/ ProviderFails
    \/ RetryAfterDelay
    \/ NotifyFinish
    \/ RejectFinish

SpecPortal == InitPortal /\ [][NextPortal]_vars

-----------------------------------------------------------------------------
(* Specification of apply_now: concurrent requests, with SMS disabled *)

InitApply ==
    /\ settings = ("SMS_ENABLED" :> FALSE)
    /\ apply_reqs = [r \in Requests |-> NoRequest]
    /\ PortalStart

NextApply ==
    \/ \E u \in Usernames, phone \in PortalPhones : Register(u, phone)
    \/ \E r \in Requests, u \in Usernames, job \in Jobs :
          ApplyNowGet(r, u, job)
    \/ \E r \in Requests : ApplyNowCreate(r)
    \/ \E u \in Usernames : ApproveCall(u)
    \/ \E u \in Usernames : RejectCall(u)
    \/ NotifyFinish
    \/ RejectFinish

SpecApply == InitApply /\ [][NextApply]_vars

-----------------------------------------------------------------------------
(* Further properties of send_sms *)

\* C11: with SMS enabled and valid credentials, when normalizing the
\* recipient yields None or the empty string, send_sms raises ValueError
\* instead of returning a dict, without a provider call, a retry or a sleep.
C11_InvalidRecipient ==
    (EnabledFlag /\ AllCredentialsSet /\ pc \notin {"idle", "off"}
        /\ format_phone_e164(settings, to_number) \in {None, <<>>})
        => /\ pc = "raised"
           /\ result = [kind |-> "ValueError",
                         text |-> "Invalid recipient phone number"]
           /\ trace = <<>>
           /\ retry_count = first_retry

C11_Witness ==
    /\ EnabledFlag /\ AllCredentialsSet
    /\ to_number = <<>>
    /\ first_retry = 0
    /\ pc = "raised"
    /\ result.kind = "ValueError"
    /\ trace = <<>>

\* C13: every dict that send_sms returns, on the disabled, the demo and the
\* production path and after any number of retries, has a message_id other
\* than None exactly when its success is true.
C13_MessageIdIffSuccess ==
    pc = "returned" => ((result.message_id # None) <=> result.success)

C13_Witness ==
    /\ pc = "returned"
    /\ result.success
    /\ result.message_id \in Sids
    /\ Len(Sleeps(trace)) = 2

-----------------------------------------------------------------------------
(* Properties of validate_twilio_credentials *)

\* the names of the credentials that are unset or blank, in the order
\* account identifier, auth secret, sender number
MissingCredentials ==
    SelectSeq(<<"TWILIO_ACCOUNT_SID", "TWILIO_AUTH_TOKEN",
                "TWILIO_PHONE_NUMBER">>,
              LAMBDA n : ~CredentialSet(n))

\* C12: validate_twilio_credentials returns is_valid = true and no error
\* message exactly when the three credentials are all non-empty after
\* trimming; otherwise it returns is_valid = false and an error message
\* that names the missing credentials, all of them and no other, in the
\* order account identifier, auth secret, sender number.
C12_Validation ==
    cmd_pc \in {"sending", "done"}
        => /\ validation.is_valid <=> AllCredentialsSet
           /\ validation.is_valid => validation.error_msg = None
           /\ ~validation.is_valid
                 => /\ validation.error_msg = MissingCredentials
                    /\ stdout = <<[style |-> "ERROR",
                                   text |-> MissingCredentials]>>

C12_Witness ==
    /\ cmd_pc = "done"
    /\ ~validation.is_valid
    /\ CredentialSet("TWILIO_ACCOUNT_SID")
    /\ validation.error_msg = <<"TWILIO_AUTH_TOKEN", "TWILIO_PHONE_NUMBER">>

-----------------------------------------------------------------------------
(* Formatting a formatted number *)

\* C17: format_phone_e164 is idempotent on its own output: for every
\* non-empty input x and every configured default country code,
\* format_phone_e164(format_phone_e164(x)) = format_phone_e164(x).
C17_Idempotent ==
    (fmt_pc = "again" /\ fmt_in \notin {None, <<>>}) => fmt_again = fmt_out

-----------------------------------------------------------------------------
(* Properties of the portal's views *)

Notifying == {"admin_approve_student", "update_application_status"}

\* the change that the handler was asked for is in the rows us, ps, apps
Committed(us, ps, apps, handler, target) ==
    IF handler = "admin_approve_student"
    THEN /\ target.id \in DOMAIN ps
         /\ target.id \in DOMAIN us
         /\ ps[target.id].is_approved
         /\ us[target.id].is_active
    ELSE /\ target.id \in DOMAIN apps
         /\ apps[target.id].status = target.status

\* C14: for a staff request, admin_approve_student and
\* update_application_status have committed their change (profile approved
\* and user active; application status set) whenever the notification is
\* under way, and when the handler returns, the change is still in place
\* and the response is a redirect to the admin dashboard, which carries a
\* warning if the notification raised: the error never leaves the handler.
C14_CommitThenNotify ==
    /\ [](admin_pc \in Notifying
            => Committed(users, profiles, applications, admin_pc,
                         admin_target))
    /\ [][(admin_pc \in Notifying /\ admin_pc' = "idle")
            => /\ Committed(users', profiles', applications', admin_pc,
                            admin_target)
               /\ response'.kind = "redirect"
               /\ response'.handler = admin_pc
               /\ response'.to = "admin_dash"
               /\ pc = "raised" => response'.level = "warning"]_vars

C14_Witness ==
    /\ response.handler = "update_application_status"
    /\ response.level = "warning"
    /\ admin_pc = "admin_approve_student"
    /\ pc = "raised"
    /\ Len(Sleeps(trace)) = 1
    /\ profiles[admin_target.id].is_approved
    /\ \E a \in DOMAIN applications : applications[a].status = "Shortlisted"

\* C15: after any interleaving of apply_now requests there is at most one
\* Application per student and job, and every Application belongs to a
\* student whose profile is approved.
C15_NoDuplicates ==
    admin_pc # "off"
        => /\ \A u \in Usernames, job \in Jobs :
                 Cardinality(Matching(u, job)) <= 1
           /\ \A a \in DOMAIN applications :
                 /\ applications[a].student \in DOMAIN profiles
                 /\ profiles[applications[a].student].is_approved

\* C16: after any sequence of register, admin_approve_student,
\* admin_reject_student and edit_profile requests, every user has its
\* profile, every profile its user, and user.is_active equals
\* profile.is_approved.
C16_ActiveIffApproved ==
    admin_pc # "off"
        => /\ DOMAIN users = DOMAIN profiles
           /\ \A u \in DOMAIN users :
                 users[u].is_active = profiles[u].is_approved

C16_Witness ==
    /\ admin_pc = "idle"
    /\ response.handler = "admin_reject_student"
    /\ response.level = "error"
    /\ DOMAIN users = {"ravi"}
    /\ users["ravi"].is_active
    /\ profiles["ravi"].is_approved
    /\ profiles["ravi"].phone = <<"0", "5", "-", "5">>
    /\ last_app_id > 0
    /\ applications = <<>>

====
